---- MODULE Spec2Model ----
(***************************************************************************)
(* A model of the autonomous social media agent: the AgentOrchestrator     *)
(* (src/orchestrator.py) and its three agents (src/agents/*.py).           *)
(*                                                                         *)
(* Conventions                                                             *)
(*  - A Python str that the code slices, joins or interpolates is a        *)
(*    sequence of one-character strings; a str that is only stored and     *)
(*    compared (status labels, platform names, roles, exception messages,  *)
(*    recommendation texts) is a TLA+ string.                              *)
(*  - A Python dict is a function from its keys: {} is <<>>, d.get(k, v)   *)
(*    is Get(d, k, v).                                                     *)
(*  - A caller-supplied value is tagged with its Python type (PyNone,      *)
(*    PyStr, PyInt, PyList, PyDict), so that the code's type errors are    *)
(*    outcomes of the model.                                               *)
(*  - A float with d decimals is the integer number of 10^-d units:        *)
(*    engagement_rate 0.0312 is 312, engagement_rate_percent 3.12 is 312.  *)
(*  - datetime.now() is the logical clock `now`, which advances by one     *)
(*    with every operation that reads the time.                            *)
(*  - json.dumps(x) is Json(x): the encoded value under a "json" tag.      *)
(***************************************************************************)
EXTENDS Integers, Sequences, FiniteSets, TLC

VARIABLES
    config,             \* AgentOrchestrator.config: platform, brand_voice
    execution_history,  \* AgentOrchestrator.execution_history
    state,              \* AgentOrchestrator.state
    memory,             \* BaseAgent.memory of each agent, by orchestrator key
    trends_cache,       \* TrendMonitorAgent.trends_cache
    metrics_history,    \* EngagementTrackerAgent.metrics_history
    aggregated_metrics, \* EngagementTrackerAgent.aggregated_metrics
    now,                \* the clock read by datetime.now()
    ret,                \* the last operation: its name, arguments and outcome
    monitor,            \* continuous_monitoring: its position and its interval
    loop                \* the event loop: its tasks and the one that holds it

vars ==
    <<config, execution_history, state, memory, trends_cache, metrics_history,
      aggregated_metrics, now, ret, monitor, loop>>

(***************************************************************************)
(* Bounds of the model.                                                    *)
(***************************************************************************)
\* Operations that read the clock, per behaviour of Spec.
MaxCalls == 2

\* add_to_memory calls per behaviour of SpecMemory.
MaxMemory == 3

\* Largest like/comment/share count drawn in SpecCall.
MaxCount == 3

\* Length of the long topic, which pushes the generated text past the limit.
LongTopicLen == 170

\* Cycles of continuous_monitoring per behaviour of SpecMonitor.
MaxCycles == 5

(***************************************************************************)
(* Program constants.                                                      *)
(***************************************************************************)
\* content[:280]
TwitterLimit == 280

\* round(engagement_rate, 4) and round(engagement_rate * 100, 2): 10^4 units
\* per 1.0 of rate; round(x / total * 100, 2): 10^4 units per 1.0 of share.
RateScale == 10000

\* interval_seconds: int = 3600
DefaultInterval == 3600

(***************************************************************************)
(* The program's string literals.                                          *)
(***************************************************************************)
TemplateConversational ==
    <<"L", "e", "t", "'", "s", " ", "t", "a", "l", "k", " ", "a", "b", "o", "u", "t", " ", "t",
    "h", "i", "s", ".", ".", ".">>

TemplateEducational ==
    <<"D", "i", "d", " ", "y", "o", "u", " ", "k", "n", "o", "w", "?">>

TemplateInspirational ==
    <<"H", "e", "r", "e", "'", "s", " ", "s", "o", "m", "e", "t", "h", "i", "n", "g", " ", "t",
    "h", "a", "t", " ", "c", "a", "u", "g", "h", "t", " ", "o", "u", "r", " ", "a", "t", "t",
    "e", "n", "t", "i", "o", "n", ".", ".", ".">>

TemplatePromotional ==
    <<"C", "h", "e", "c", "k", " ", "o", "u", "t", " ", "w", "h", "a", "t", " ", "w", "e", "'",
    "v", "e", " ", "b", "e", "e", "n", " ", "w", "o", "r", "k", "i", "n", "g", " ", "o", "n",
    ".", ".", ".">>

TemplateNews ==
    <<"B", "r", "e", "a", "k", "i", "n", "g", ":", " ", "L", "a", "t", "e", "s", "t", " ", "u",
    "p", "d", "a", "t", "e", "s">>

TopicLabel ==
    <<"\n", "\n", "T", "o", "p", "i", "c", ":", " ">>

ToneLabel ==
    <<"\n", "T", "o", "n", "e", ":", " ">>

BrandVoiceLabel ==
    <<"\n", "B", "r", "a", "n", "d", " ", "V", "o", "i", "c", "e", ":", " ">>

ContentTail ==
    <<"\n", "\n", "G", "e", "n", "e", "r", "a", "t", "e", "d", " ", "c", "o", "n", "t", "e",
    "n", "t", " ", "f", "o", "r", " ", "s", "o", "c", "i", "a", "l", " ", "m", "e", "d", "i",
    "a", " ", "e", "n", "g", "a", "g", "e", "m", "e", "n", "t", ".">>

TikTokHook ==
    <<"H", "o", "o", "k", ":", " ">>

InstagramVisual ==
    <<"[", "V", "i", "s", "u", "a", "l", ":", " ", "i", "n", "f", "o", "g", "r", "a", "p", "h",
    "i", "c", "]", "\n">>

NoneText ==
    <<"N", "o", "n", "e">>

TopicAIRevolution ==
    <<"#", "A", "I", "R", "e", "v", "o", "l", "u", "t", "i", "o", "n">>

TopicGenerativeAI ==
    <<"#", "G", "e", "n", "e", "r", "a", "t", "i", "v", "e", "A", "I">>

TopicTechInnovation ==
    <<"#", "T", "e", "c", "h", "I", "n", "n", "o", "v", "a", "t", "i", "o", "n">>

ToneProfessional ==
    <<"p", "r", "o", "f", "e", "s", "s", "i", "o", "n", "a", "l">>

TopicArtificialIntelligence ==
    <<"A", "r", "t", "i", "f", "i", "c", "i", "a", "l", " ", "I", "n", "t", "e", "l", "l", "i",
    "g", "e", "n", "c", "e">>

ToneCasual ==
    <<"c", "a", "s", "u", "a", "l">>

TagAI ==
    <<"#", "A", "I">>

TagInnovation ==
    <<"#", "I", "n", "n", "o", "v", "a", "t", "i", "o", "n">>

(***************************************************************************)
(* Python values and the operations the code applies to them.              *)
(***************************************************************************)
PyNone == [t |-> "NoneType"]

PyStr(s) == [t |-> "str", v |-> s]

PyInt(n) == [t |-> "int", v |-> n]

PyList(xs) == [t |-> "list", v |-> xs]

PyDict(d) == [t |-> "dict", v |-> d]

\* bool(x), as `x or y` and `if x` evaluate it.
Truthy(x) ==
    CASE x.t = "NoneType" -> FALSE
      [] x.t = "int" -> x.v # 0
      [] x.t = "dict" -> DOMAIN x.v # {}
      [] OTHER -> Len(x.v) > 0

\* x or y
PyOr(x, y) == IF Truthy(x) THEN x ELSE y

\* d.get(k, default) on a dict d
Get(d, k, default) == IF k \in DOMAIN d THEN d[k] ELSE default

\* An operation's outcome: a returned value, or a raised exception.
Return(v) == [raised |-> FALSE, value |-> v]

Raise(cls, msg) == [raised |-> TRUE, cls |-> cls, msg |-> msg]

\* F(v) with v evaluated once, before F is applied to it: an assignment
\* `x = v` followed by the statements F that read x.
Bind(v, F(_)) == CHOOSE y \in {F(x) : x \in {v}} : TRUE

\* The outcome of an agent's method: the agents' state it leaves, and a
\* returned value or the exception that left the method.
Returned(w, v) == [w |-> w, raised |-> FALSE, value |-> v]

Raised(w, exc) == [w |-> w, raised |-> TRUE, cls |-> exc.cls, msg |-> exc.msg]

\* The classes `except Exception` catches, among those the code can raise.
ExceptionClasses == {"TypeError", "AttributeError", "KeyError", "IndexError"}

\* x.get(k, default) on any value: only a dict has the attribute.
PyGet(x, k, default) ==
    IF x.t = "dict"
    THEN Return(Get(x.v, k, default))
    ELSE Raise("AttributeError", "'" \o x.t \o "' object has no attribute 'get'")

\* x + y on ints and strs.
PyAdd(x, y) ==
    CASE x.t = "int" /\ y.t = "int" -> Return(PyInt(x.v + y.v))
      [] x.t = "str" /\ y.t = "str" -> Return(PyStr(x.v \o y.v))
      [] x.t = "str" ->
            Raise("TypeError", "can only concatenate str (not \"" \o y.t \o "\") to str")
      [] OTHER ->
            Raise("TypeError",
                  "unsupported operand type(s) for +: '" \o x.t \o "' and '" \o y.t \o "'")

\* x > 0
PyPositive(x) ==
    IF x.t = "int"
    THEN Return(x.v > 0)
    ELSE Raise("TypeError",
               "'>' not supported between instances of '" \o x.t \o "' and 'int'")

\* The decimal digits of a natural number.
RECURSIVE Digits(_)
Digits(n) ==
    LET d == <<"0", "1", "2", "3", "4", "5", "6", "7", "8", "9">>
    IN  IF n < 10 THEN <<d[n + 1]>> ELSE Digits(n \div 10) \o <<d[(n % 10) + 1]>>

\* str(x), as an f-string field formats it.
Str(x) ==
    CASE x.t = "NoneType" -> NoneText
      [] x.t = "int" -> IF x.v < 0 THEN <<"-">> \o Digits(-x.v) ELSE Digits(x.v)
      [] OTHER -> x.v

\* s[start:] for a list or str s, with Python's index normalisation.
PySliceFrom(s, start) ==
    LET n == Len(s)
        i == IF start < 0 THEN (IF start + n < 0 THEN 0 ELSE start + n)
                          ELSE (IF start > n THEN n ELSE start)
    IN  SubSeq(s, i + 1, n)

\* s[:stop] for a list or str s and stop >= 0.
PySliceTo(s, stop) == SubSeq(s, 1, IF stop > Len(s) THEN Len(s) ELSE stop)

\* json.dumps(x): the value encoded, kept as the value under a tag.
Json(x) == [t |-> "json", v |-> x]

(***************************************************************************)
(* BaseAgent (src/agents/base_agent.py)                                    *)
(***************************************************************************)
AgentNames == {"trend_monitor", "content_generator", "engagement_tracker"}

\* add_to_memory(role, content) at time t, on the memory list mem
AddToMemory(mem, role, content, t) ==
    Append(mem, [timestamp |-> t, role |-> role, content |-> content, metadata |-> <<>>])

\* get_memory(limit): limit is None or an int
GetMemory(mem, limit) ==
    IF Truthy(limit) THEN PySliceFrom(mem, -limit.v) ELSE mem

\* clear_memory()
ClearMemory(mem) == <<>>

(***************************************************************************)
(* TrendMonitorAgent (src/agents/trend_monitor.py)                         *)
(***************************************************************************)
\* A variant that searches: no trends for an empty query
CollectTrendsForQuery(query, time_range) ==
    IF Truthy(query)
    THEN << [rank |-> 1, topic |-> PyStr(TopicAIRevolution), volume |-> 125000,
             sentiment |-> "positive", momentum |-> "rising"],
            [rank |-> 2, topic |-> PyStr(TopicGenerativeAI), volume |-> 98000,
             sentiment |-> "mixed", momentum |-> "stable"],
            [rank |-> 3, topic |-> PyStr(TopicTechInnovation), volume |-> 87000,
             sentiment |-> "positive", momentum |-> "rising"] >>
    ELSE <<>>

\* _collect_trends: the fixed list, whatever the query and time range
CollectTrends(query, time_range) ==
    << [rank |-> 1, topic |-> PyStr(TopicAIRevolution), volume |-> 125000,
        sentiment |-> "positive", momentum |-> "rising"],
       [rank |-> 2, topic |-> PyStr(TopicGenerativeAI), volume |-> 98000,
        sentiment |-> "mixed", momentum |-> "stable"],
       [rank |-> 3, topic |-> PyStr(TopicTechInnovation), volume |-> 87000,
        sentiment |-> "positive", momentum |-> "rising"] >>

\* sum(xs) for a list of numbers
RECURSIVE Sum(_)
Sum(xs) == IF xs = <<>> THEN 0 ELSE Head(xs) + Sum(Tail(xs))

\* a / b as an exact fraction; `x if trends else 0` gives 0 on an empty list
Frac(a, b) == IF b = 0 THEN [num |-> 0, den |-> 1] ELSE [num |-> a, den |-> b]

\* _analyze_trends
AnalyzeTrends(trends) ==
    LET positive_count ==
            Sum([i \in 1..Len(trends) |->
                    IF Get(trends[i], "sentiment", "") = "positive" THEN 1 ELSE 0])
        rising_count ==
            Sum([i \in 1..Len(trends) |->
                    IF Get(trends[i], "momentum", "") = "rising" THEN 1 ELSE 0])
        volume == Sum([i \in 1..Len(trends) |-> Get(trends[i], "volume", 0)])
    IN  [total_trends |-> Len(trends),
         positive_sentiment |-> Frac(positive_count, Len(trends)),
         rising_momentum |-> Frac(rising_count, Len(trends)),
         avg_volume |-> Frac(volume, Len(trends)),
         engagement_potential |->
             IF 2 * rising_count > Len(trends) THEN "high" ELSE "medium"]

\* _generate_insights
GenerateInsights(analysis) ==
    LET i1 == IF 10 * analysis.positive_sentiment.num > 6 * analysis.positive_sentiment.den
              THEN <<"Strong positive sentiment detected - optimal for brand promotion">>
              ELSE <<>>
        i2 == IF 2 * analysis.rising_momentum.num > analysis.rising_momentum.den
              THEN <<"Multiple rising trends identified - recommend content alignment">>
              ELSE <<>>
        i3 == IF analysis.avg_volume.num > 90000 * analysis.avg_volume.den
              THEN <<"High engagement volume detected - prioritize relevant content">>
              ELSE <<>>
        insights == i1 \o i2 \o i3
    IN  IF insights = <<>>
        THEN <<"Monitor trends closely for emerging opportunities">>
        ELSE insights

(***************************************************************************)
(* ContentGeneratorAgent (src/agents/content_generator.py)                 *)
(***************************************************************************)
\* The brand voice of ContentGeneratorAgent.__init__ when none is configured.
DefaultBrandVoice ==
    [tone |-> PyStr(ToneProfessional), style |-> PyStr("conversational"),
     values |-> PyStr("innovation, transparency, excellence")]

\* self.brand_voice = brand_voice or {...}
BrandVoice ==
    IF Truthy(config.brand_voice) THEN config.brand_voice.v ELSE DefaultBrandVoice

\* self.brand_voice.get(key): a configured brand voice that is no mapping
\* has no get.
BrandVoiceGet(key) ==
    IF Truthy(config.brand_voice)
    THEN PyGet(config.brand_voice, key, PyNone)
    ELSE Return(Get(DefaultBrandVoice, key, PyNone))

\* _initialize_templates
ContentTemplates ==
    [conversational |-> TemplateConversational,
     educational |-> TemplateEducational,
     inspirational |-> TemplateInspirational,
     promotional |-> TemplatePromotional,
     news |-> TemplateNews]

\* _generate_content
GenerateContent(topic, tone, style) ==
    LET template == IF style.t = "str" /\ style.v \in DOMAIN ContentTemplates
                    THEN ContentTemplates[style.v]
                    ELSE <<>>
    IN  template \o TopicLabel \o Str(topic) \o ToneLabel \o Str(tone)
            \o BrandVoiceLabel \o Str(Get(BrandVoice, "tone", PyNone)) \o ContentTail

\* A variant whose slice is one character too long: content[:281]
OptimizeOffByOne(content) ==
    IF config.platform = "twitter" THEN PySliceTo(content, TwitterLimit + 1) ELSE content

\* _optimize_for_platform
OptimizeForPlatform(content) ==
    CASE config.platform = "twitter" -> PySliceTo(content, TwitterLimit)
      [] config.platform = "tiktok" -> TikTokHook \o content
      [] config.platform = "instagram" -> InstagramVisual \o content
      [] OTHER -> content

\* The strs of a list joined by sep.
RECURSIVE JoinStrs(_, _)
JoinStrs(sep, xs) ==
    IF xs = <<>> THEN <<>>
    ELSE IF Len(xs) = 1 THEN Head(xs).v
    ELSE Head(xs).v \o sep \o JoinStrs(sep, Tail(xs))

\* sep.join(xs) for a list, a str (its characters) or an int xs
PyJoin(sep, xs) ==
    IF xs.t = "str"
    THEN Return(JoinStrs(sep, [i \in 1..Len(xs.v) |-> PyStr(<<xs.v[i]>>)]))
    ELSE IF xs.t # "list"
    THEN Raise("TypeError", "can only join an iterable")
    ELSE IF \E i \in 1..Len(xs.v) : xs.v[i].t # "str"
    THEN LET i == CHOOSE j \in 1..Len(xs.v) :
                    /\ xs.v[j].t # "str"
                    /\ \A k \in 1..(j - 1) : xs.v[k].t = "str"
         IN  Raise("TypeError",
                   "sequence item " \o ToString(i - 1) \o ": expected str instance, "
                       \o xs.v[i].t \o " found")
    ELSE Return(JoinStrs(sep, xs.v))

\* A variant that optimizes last: the hashtags are appended to the generated
\* text, and the whole is post-processed for the platform.
ContentExecuteOptimizedLast(w, input_data, t) ==
    LET topic == Get(input_data, "topic", PyStr(<<>>))
        tone == PyOr(Get(input_data, "tone", PyNone), Get(BrandVoice, "tone", PyNone))
        style == PyOr(Get(input_data, "style", PyNone), Get(BrandVoice, "style", PyNone))
        hashtags == Get(input_data, "hashtags", PyList(<<>>))
    IN  IF BrandVoiceGet("tone").raised THEN Raised(w, BrandVoiceGet("tone")) ELSE
        Bind(GenerateContent(topic, tone, style), LAMBDA content :
        Bind(IF Truthy(hashtags) THEN PyJoin(<<" ">>, hashtags) ELSE Return(<<>>),
             LAMBDA joined :
        IF joined.raised THEN Raised(w, joined) ELSE
        Bind(OptimizeForPlatform(IF Truthy(hashtags)
                                 THEN content \o <<"\n", "\n">> \o joined.value
                                 ELSE content),
             LAMBDA with_hashtags :
        Bind([status |-> "success",
              platform |-> config.platform,
              content |-> with_hashtags,
              topic |-> topic,
              tone |-> tone,
              style |-> style,
              length |-> Len(with_hashtags),
              timestamp |-> t],
             LAMBDA result :
        Returned([w EXCEPT !.memory["content_generator"] =
                               AddToMemory(@, "assistant", Json(result), t)],
                 result)))))

\* ContentGeneratorAgent.execute(input_data) at time t on the agents' state w
ContentExecute(w, input_data, t) ==
    LET topic == Get(input_data, "topic", PyStr(<<>>))
        tone == PyOr(Get(input_data, "tone", PyNone), Get(BrandVoice, "tone", PyNone))
        style == PyOr(Get(input_data, "style", PyNone), Get(BrandVoice, "style", PyNone))
        hashtags == Get(input_data, "hashtags", PyList(<<>>))
    IN  \* _generate_content reads self.brand_voice.get('tone') on every path
        IF BrandVoiceGet("tone").raised THEN Raised(w, BrandVoiceGet("tone")) ELSE
        Bind(GenerateContent(topic, tone, style), LAMBDA content :
        Bind(OptimizeForPlatform(content), LAMBDA optimized :
        Bind(IF Truthy(hashtags) THEN PyJoin(<<" ">>, hashtags) ELSE Return(<<>>),
             LAMBDA joined :
        IF joined.raised THEN Raised(w, joined) ELSE
        Bind(IF Truthy(hashtags)
             THEN optimized \o <<"\n", "\n">> \o joined.value
             ELSE optimized,
             LAMBDA with_hashtags :
        Bind([status |-> "success",
              platform |-> config.platform,
              content |-> with_hashtags,
              topic |-> topic,
              tone |-> tone,
              style |-> style,
              length |-> Len(with_hashtags),
              timestamp |-> t],
             LAMBDA result :
        Returned([w EXCEPT !.memory["content_generator"] =
                               AddToMemory(@, "assistant", Json(result), t)],
                 result))))))

(***************************************************************************)
(* EngagementTrackerAgent (src/agents/engagement_tracker.py)               *)
(***************************************************************************)
\* A variant that truncates: int(num / den * 10^d) / 10^d
RoundDown(num, den) == num \div den

\* round(num / den, d) as a number of 10^-d units, for num already scaled by
\* 10^d and den > 0: the nearest integer, a tie going to the even one.
RoundHalfEven(num, den) ==
    LET q == num \div den
        r == num - q * den
    IN  IF 2 * r < den THEN q
        ELSE IF 2 * r > den THEN q + 1
        ELSE IF q % 2 = 0 THEN q ELSE q + 1

\* engagement_rate >= 0.08, 0.05, 0.03, in 10^-4 units
ExcellentRate == 800

GoodRate == 500

AverageRate == 300

\* comments_percent < 20 and shares_percent < 10, in 10^-2 units
CommentsPercentFloor == 2000

SharesPercentFloor == 1000

\* The keys of aggregated_metrics: every numeric field of the processed metrics.
MetricKeys ==
    {"likes", "comments", "shares", "impressions", "total_interactions",
     "engagement_rate", "engagement_rate_percent"}

\* The tagged fields of the processed metrics; the two rates are always numbers.
CountKeys == {"likes", "comments", "shares", "impressions", "total_interactions"}

\* isinstance(value, (int, float)) on a processed field, and the number it adds
IsNumber(processed, key) == key \notin CountKeys \/ processed[key].t = "int"

NumberOf(processed, key) == IF key \in CountKeys THEN processed[key].v ELSE processed[key]

\* A variant that assigns where the code adds: aggregated_metrics[key] = value
AssignToAggregate(aggregated, processed) ==
    [key \in MetricKeys |->
        IF IsNumber(processed, key) THEN NumberOf(processed, key) ELSE aggregated[key]]

\* for key, value in processed.items(): aggregated_metrics[key] += value
AddToAggregate(aggregated, processed) ==
    [key \in MetricKeys |->
        IF IsNumber(processed, key)
        THEN aggregated[key] + NumberOf(processed, key)
        ELSE aggregated[key]]

\* A variant whose default is 0: metrics_data.get("impressions", 0)
ImpressionsOrZero(metrics) == Get(metrics, "impressions", PyInt(0))

\* metrics_data.get("impressions", 1)
Impressions(metrics) == Get(metrics, "impressions", PyInt(1))

\* A variant that floors the denominator: total_interactions / max(impressions, 1)
EngagementRateFloored(total_interactions, impressions) ==
    RoundHalfEven(total_interactions * RateScale, IF impressions > 0 THEN impressions ELSE 1)

\* round(total_interactions / impressions if impressions > 0 else 0, 4)
EngagementRate(total_interactions, impressions) ==
    IF impressions > 0
    THEN RoundHalfEven(total_interactions * RateScale, impressions)
    ELSE 0

\* _process_metrics: the processed metrics and the aggregate after them
ProcessMetrics(aggregated, metrics_data) ==
    LET getLikes == PyGet(metrics_data, "likes", PyInt(0))
        likes == getLikes.value
        comments == Get(metrics_data.v, "comments", PyInt(0))
        shares == Get(metrics_data.v, "shares", PyInt(0))
        impressions == Impressions(metrics_data.v)
        sum1 == PyAdd(likes, comments)
        sum2 == IF sum1.raised THEN sum1 ELSE PyAdd(sum1.value, shares)
        total_interactions == sum2.value
        positive == IF sum2.raised THEN sum2 ELSE PyPositive(impressions)
        bad_division == positive.value /\ total_interactions.t # "int"
        \* a str total with impressions <= 0 is never divided
        engagement_rate == IF total_interactions.t = "int"
                           THEN EngagementRate(total_interactions.v, impressions.v)
                           ELSE 0
        processed == [likes |-> likes,
                      comments |-> comments,
                      shares |-> shares,
                      impressions |-> impressions,
                      total_interactions |-> total_interactions,
                      engagement_rate |-> engagement_rate,
                      engagement_rate_percent |-> engagement_rate]
    IN  IF getLikes.raised THEN getLikes
        ELSE IF positive.raised THEN positive
        ELSE IF bad_division
        THEN Raise("TypeError",
                   "unsupported operand type(s) for /: '" \o total_interactions.t
                       \o "' and 'int'")
        ELSE Bind(processed, LAMBDA p :
                  [raised |-> FALSE, value |-> p, aggregated |-> AddToAggregate(aggregated, p)])

\* A variant whose comparisons are strict: engagement_rate > 0.08, ...
PerformanceStatusStrict(engagement_rate) ==
    IF engagement_rate > ExcellentRate THEN "excellent"
    ELSE IF engagement_rate > GoodRate THEN "good"
    ELSE IF engagement_rate > AverageRate THEN "average"
    ELSE "needs_improvement"

\* The status ladder of _analyze_performance, on the rate in 10^-4 units.
PerformanceStatus(engagement_rate) ==
    IF engagement_rate >= ExcellentRate THEN "excellent"
    ELSE IF engagement_rate >= GoodRate THEN "good"
    ELSE IF engagement_rate >= AverageRate THEN "average"
    ELSE "needs_improvement"

\* round((part / total * 100) if total > 0 else 0, 2), in 10^-2 units
PercentOf(part, total) ==
    IF total > 0 THEN RoundHalfEven(part * RateScale, total) ELSE 0

\* _analyze_performance
AnalyzePerformance(processed) ==
    LET engagement_rate == processed.engagement_rate
        status == PerformanceStatus(engagement_rate)
        total == processed.total_interactions
        positive == PyPositive(total)
        analysis == [status |-> status,
                     engagement_rate |-> engagement_rate,
                     engagement_breakdown |->
                         [likes_percent |-> PercentOf(processed.likes.v, total.v),
                          comments_percent |-> PercentOf(processed.comments.v, total.v),
                          shares_percent |-> PercentOf(processed.shares.v, total.v)],
                     reach |-> processed.impressions]
    IN  IF positive.raised THEN positive ELSE Return(analysis)

\* A variant whose add-on thresholds are inclusive: comments_percent <= 20
\* and shares_percent <= 10
GenerateRecommendationsInclusive(analysis) ==
    LET status == analysis.status
        first == CASE status = "excellent" ->
                        <<"Excellent engagement! Continue current strategy.">>
                   [] status = "good" ->
                        <<"Good performance. Consider A/B testing new content formats.">>
                   [] status = "average" ->
                        <<"Average engagement. Try increasing content frequency.">>
                   [] OTHER ->
                        <<"Low engagement. Review content quality and posting times.">>
        discussion == IF analysis.engagement_breakdown.comments_percent <= CommentsPercentFloor
                      THEN <<"Consider adding more discussion-prompting questions.">>
                      ELSE <<>>
        sharing == IF analysis.engagement_breakdown.shares_percent <= SharesPercentFloor
                   THEN <<"Encourage sharing with clear CTAs and valuable content.">>
                   ELSE <<>>
    IN  first \o discussion \o sharing

\* _generate_recommendations
GenerateRecommendations(analysis) ==
    LET status == analysis.status
        first == CASE status = "excellent" ->
                        <<"Excellent engagement! Continue current strategy.">>
                   [] status = "good" ->
                        <<"Good performance. Consider A/B testing new content formats.">>
                   [] status = "average" ->
                        <<"Average engagement. Try increasing content frequency.">>
                   [] OTHER ->
                        <<"Low engagement. Review content quality and posting times.">>
        discussion == IF analysis.engagement_breakdown.comments_percent < CommentsPercentFloor
                      THEN <<"Consider adding more discussion-prompting questions.">>
                      ELSE <<>>
        sharing == IF analysis.engagement_breakdown.shares_percent < SharesPercentFloor
                   THEN <<"Encourage sharing with clear CTAs and valuable content.">>
                   ELSE <<>>
    IN  first \o discussion \o sharing

\* EngagementTrackerAgent.execute(input_data) at time t on the agents' state w
TrackerExecute(w, input_data, t) ==
    LET metrics_data == Get(input_data, "metrics_data", PyDict(<<>>))
    IN  Bind(ProcessMetrics(w.aggregated_metrics, metrics_data), LAMBDA pm :
        IF pm.raised THEN Raised(w, pm) ELSE
        Bind([w EXCEPT !.aggregated_metrics = pm.aggregated], LAMBDA w1 :
        Bind(AnalyzePerformance(pm.value), LAMBDA an :
        IF an.raised THEN Raised(w1, an) ELSE
        Bind([status |-> "success",
              platform |-> config.platform,
              metrics |-> pm.value,
              analysis |-> an.value,
              recommendations |-> GenerateRecommendations(an.value),
              timestamp |-> t],
             LAMBDA result :
        Returned([w1 EXCEPT !.metrics_history = Append(@, result),
                            !.memory["engagement_tracker"] =
                                AddToMemory(@, "assistant", Json(result), t)],
                 result)))))

\* The mock metrics of EngagementTrackerAgent.process
SampleMetrics ==
    [likes |-> PyInt(450), comments |-> PyInt(120), shares |-> PyInt(85),
     impressions |-> PyInt(12500), engagement_rate |-> [t |-> "float", v |-> 520]]

\* EngagementTrackerAgent.process(message)
TrackerProcess(w, message, t) ==
    Bind([w EXCEPT !.memory["engagement_tracker"] = AddToMemory(@, "user", message, t)],
         LAMBDA w1 :
    Bind(TrackerExecute(w1, [metrics_data |-> PyDict(SampleMetrics)], t), LAMBDA result :
    IF result.raised THEN result
    ELSE Returned(result.w,
                  "Engagement Analysis Complete: "
                      \o Get(result.value.analysis, "status", "unknown")
                      \o " performance")))

(***************************************************************************)
(* TrendMonitorAgent.execute (src/agents/trend_monitor.py)                 *)
(***************************************************************************)
\* TrendMonitorAgent.execute(input_data) at time t on the agents' state w
TrendExecute(w, input_data, t) ==
    LET query == Get(input_data, "query", PyStr(""))
        time_range == Get(input_data, "time_range", PyStr("24h"))
    IN  Bind(CollectTrends(query, time_range), LAMBDA trends :
        Bind(AnalyzeTrends(trends), LAMBDA analysis :
        Bind([status |-> "success",
              platform |-> config.platform,
              trends |-> trends,
              analysis |-> analysis,
              insights |-> GenerateInsights(analysis),
              timestamp |-> t],
             LAMBDA result :
        Returned([w EXCEPT !.trends_cache = trends,
                           !.memory["trend_monitor"] =
                               AddToMemory(@, "assistant", Json(result), t)],
                 result))))

(***************************************************************************)
(* AgentOrchestrator (src/orchestrator.py)                                 *)
(***************************************************************************)
\* The state reset_state installs, and __init__ before it.
EmptyState == [trends |-> <<>>, generated_content |-> <<>>, engagement_metrics |-> <<>>]

\* The mutable state of the orchestrator and its agents, as one value.
World ==
    [execution_history |-> execution_history,
     state |-> state,
     memory |-> memory,
     trends_cache |-> trends_cache,
     metrics_history |-> metrics_history,
     aggregated_metrics |-> aggregated_metrics]

\* The result of the except branch of execute_workflow.
ErrorResult(workflow_id, exc, t) ==
    [workflow_id |-> workflow_id, status |-> "error", error |-> exc.msg, timestamp |-> t]

\* A variant with a narrower handler: except AttributeError as e
CatchAttributeError(workflow_id, out, t) ==
    IF out.cls = "AttributeError"
    THEN Returned(out.w, ErrorResult(workflow_id, out, t))
    ELSE out

\* A variant that rolls back: the except branch restores the state the
\* orchestrator and its agents had when the invocation began.
CatchAndRollBack(workflow_id, out, t) ==
    IF out.cls \in ExceptionClasses
    THEN Returned(World, ErrorResult(workflow_id, out, t))
    ELSE out

\* A variant that keeps a record of failures: the except branch appends the
\* error result to the execution history.
CatchAndRecord(workflow_id, out, t) ==
    IF out.cls \in ExceptionClasses
    THEN Returned([out.w EXCEPT !.execution_history =
                                    Append(@, ErrorResult(workflow_id, out, t))],
                  ErrorResult(workflow_id, out, t))
    ELSE out

\* except Exception as e: an exception of another class leaves execute_workflow.
Catch(workflow_id, out, t) ==
    IF out.cls \in ExceptionClasses
    THEN Returned(out.w, ErrorResult(workflow_id, out, t))
    ELSE out

\* Step 1 of execute_workflow: monitor trends.
TrendStep(w, input_params, t) ==
    Bind(PyGet(input_params, "query", PyStr("")), LAMBDA query :
    IF query.raised THEN Raised(w, query) ELSE
    Bind(TrendExecute(w, [query |-> query.value], t), LAMBDA trend_result :
    IF trend_result.raised THEN trend_result
    ELSE Returned([trend_result.w EXCEPT
                       !.state.trends = Get(trend_result.value, "trends", <<>>)],
                  trend_result.value)))

\* A variant that asks for the key, not for a truthy value:
\* input_params["topic"] if "topic" in input_params else the first trend's topic
ResolveTopicByKey(input_params, trend_result) ==
    IF "topic" \in DOMAIN input_params.v
    THEN Return(input_params.v.topic)
    ELSE Return(Get(Get(trend_result, "trends", << <<>> >>)[1], "topic", PyStr(<<>>)))

\* input_params.get("topic") or trend_result.get("trends", [{}])[0].get("topic", "")
ResolveTopic(input_params, trend_result) ==
    LET given == Get(input_params.v, "topic", PyNone)
        trends == Get(trend_result, "trends", << <<>> >>)
    IN  IF Truthy(given) THEN Return(given)
        ELSE IF trends = <<>> THEN Raise("IndexError", "list index out of range")
        ELSE Return(Get(trends[1], "topic", PyStr(<<>>)))

\* A variant that goes on to the next step when the content agent fails:
\* the call wrapped in a try of its own, with an empty result on failure.
ContentStepSkippedOnFailure(w, input_params, trend_result, t) ==
    Bind(ResolveTopic(input_params, trend_result), LAMBDA topic :
    IF topic.raised THEN Raised(w, topic) ELSE
    Bind(ContentExecute(w,
                        [topic |-> topic.value,
                         tone |-> Get(input_params.v, "tone", PyNone),
                         hashtags |-> Get(input_params.v, "hashtags", PyList(<<>>))],
                        t),
         LAMBDA content_result :
    IF content_result.raised THEN Returned(w, <<>>)
    ELSE Returned([content_result.w EXCEPT
                       !.state.generated_content = Append(@, content_result.value)],
                  content_result.value)))

\* Step 2 of execute_workflow: generate content on the resolved topic.
ContentStep(w, input_params, trend_result, t) ==
    Bind(ResolveTopic(input_params, trend_result), LAMBDA topic :
    IF topic.raised THEN Raised(w, topic) ELSE
    Bind(ContentExecute(w,
                        [topic |-> topic.value,
                         tone |-> Get(input_params.v, "tone", PyNone),
                         hashtags |-> Get(input_params.v, "hashtags", PyList(<<>>))],
                        t),
         LAMBDA content_result :
    IF content_result.raised THEN content_result
    ELSE Returned([content_result.w EXCEPT
                       !.state.generated_content = Append(@, content_result.value)],
                  content_result.value)))

\* A variant that requires the metrics: input_params["metrics"]
EngagementStepRequired(w, input_params, t) ==
    IF "metrics" \notin DOMAIN input_params.v
    THEN Raised(w, Raise("KeyError", "'metrics'"))
    ELSE Bind(TrackerExecute(w, [metrics_data |-> input_params.v.metrics], t),
              LAMBDA engagement_result :
         IF engagement_result.raised THEN engagement_result
         ELSE Returned([engagement_result.w EXCEPT
                            !.state.engagement_metrics =
                                Get(engagement_result.value, "analysis", <<>>)],
                       engagement_result.value))

\* Step 3 of execute_workflow: track engagement on the caller's metrics.
EngagementStep(w, input_params, t) ==
    Bind(TrackerExecute(w,
                        [metrics_data |-> Get(input_params.v, "metrics", PyDict(<<>>))],
                        t),
         LAMBDA engagement_result :
    IF engagement_result.raised THEN engagement_result
    ELSE Returned([engagement_result.w EXCEPT
                       !.state.engagement_metrics =
                           Get(engagement_result.value, "analysis", <<>>)],
                  engagement_result.value))

\* The result execute_workflow compiles after the three steps.
CompileResult(w, workflow_id, content_result, engagement_result, t) ==
    [workflow_id |-> workflow_id,
     status |-> "success",
     timestamp |-> t,
     trends |-> w.state.trends,
     content |-> Get(content_result, "content", PyNone),
     engagement_analysis |-> w.state.engagement_metrics,
     recommendations |-> Get(engagement_result, "recommendations", <<>>)]

\* A variant that returns the result without recording it.
FinishUnrecorded(w, workflow_id, content_result, engagement_result, t) ==
    Returned(w, CompileResult(w, workflow_id, content_result, engagement_result, t))

\* The end of the try block: the result is compiled, appended and returned.
Finish(w, workflow_id, content_result, engagement_result, t) ==
    Bind(CompileResult(w, workflow_id, content_result, engagement_result, t), LAMBDA result :
    Returned([w EXCEPT !.execution_history = Append(@, result)], result))

\* get_execution_history(limit)
GetExecutionHistory(history, limit) ==
    IF Truthy(limit) THEN PySliceFrom(history, -limit.v) ELSE history

\* get_current_state()
GetCurrentState(w) ==
    [state |-> w.state,
     agents_initialized |-> <<"trend_monitor", "content_generator", "engagement_tracker">>,
     execution_count |-> Len(w.execution_history),
     last_execution |->
         IF w.execution_history # <<>>
         THEN w.execution_history[Len(w.execution_history)]
         ELSE PyNone]

\* A variant that starts over altogether: the history goes with the state.
ResetStateAndHistory(w) == [w EXCEPT !.state = EmptyState, !.execution_history = <<>>]

\* reset_state()
ResetStateOf(w) == [w EXCEPT !.state = EmptyState]

(***************************************************************************)
(* Inputs.                                                                 *)
(***************************************************************************)
\* The dict with the keys of opts that are given: opts[k] is <<>> for an
\* omitted key and <<v>> for a key given with value v.
DictOf(opts) ==
    PyDict([k \in {j \in DOMAIN opts : Len(opts[j]) > 0} |-> opts[k][1]])

\* <<>> (omitted) or <<v>> for each v of S
Optional(S) == {<<>>} \cup {<<v>> : v \in S}

LongTopic == [i \in 1..LongTopicLen |-> "x"]

Platforms == {"twitter", "tiktok", "instagram", "linkedin"}

\* The brand_voice entry of the orchestrator's config: none, or one with a
\* tone and no style.
BrandVoices == {PyNone, PyDict([tone |-> PyStr(<<"p", "l", "a", "y", "f", "u", "l">>)])}

HashtagLists ==
    {PyList(<<>>),
     PyList(<<PyStr(TagAI)>>),
     PyList(<<PyStr(TagAI), PyStr(TagInnovation)>>),
     PyList(<<PyStr(TagAI), PyInt(1)>>)}

\* A count that is not a number.
BadCount == PyStr("many")

\* The inputs of execute_workflow in Spec: not a mapping; nothing given; the
\* end-to-end scenario; an empty topic; a long topic with hashtags; a
\* hashtag that is no str; metrics with one count, with a count that is no
\* number, and with every count.
WorkflowInputs ==
    {PyNone,
     PyDict(<<>>),
     PyDict([query |-> PyStr("AI trends"),
             topic |-> PyStr(TopicArtificialIntelligence),
             tone |-> PyStr(ToneProfessional),
             hashtags |-> PyList(<<PyStr(TagAI)>>)]),
     PyDict([topic |-> PyStr(<<>>)]),
     PyDict([topic |-> PyStr(LongTopic),
             hashtags |-> PyList(<<PyStr(TagAI), PyStr(TagInnovation)>>)]),
     PyDict([hashtags |-> PyList(<<PyStr(TagAI), PyInt(1)>>)]),
     PyDict([metrics |-> PyDict([likes |-> PyInt(10)])]),
     PyDict([metrics |-> PyDict([likes |-> BadCount])]),
     PyDict([metrics |-> PyDict([likes |-> PyInt(5), comments |-> PyInt(2),
                                 shares |-> PyInt(1), impressions |-> PyInt(100)])])}

\* The metrics of a direct EngagementTrackerAgent.execute in Spec.
TrackerInputs ==
    {PyDict([likes |-> PyInt(5)]),
     PyDict([likes |-> BadCount, comments |-> BadCount, shares |-> BadCount,
             impressions |-> PyInt(0)])}

\* The limits of get_memory: none, and every count up to n.
Limits(n) == {PyNone} \cup {PyInt(k) : k \in 0..n}

\* The limits of get_execution_history in Spec.
HistoryLimits == {PyNone, PyInt(0), PyInt(1), PyInt(2)}

\* The platforms of Spec: one the content generator truncates for, one it
\* prepends a label for.
SpecPlatforms == {"twitter", "instagram"}

\* The impressions drawn in SpecCall: zero, one, a power of two (where ties
\* of the rounding are exact in binary floating point), and powers of ten.
ImpressionValues == {0, 1, 32, 100, 1000}

\* The metrics mappings of SpecCall: each key omitted, a count, or no number.
CallMetrics ==
    {DictOf([likes |-> l, comments |-> c, shares |-> s, impressions |-> i]) :
        l \in Optional({PyInt(n) : n \in 0..MaxCount} \cup {BadCount}),
        c \in Optional({PyInt(n) : n \in 0..MaxCount} \cup {BadCount}),
        s \in Optional({PyInt(n) : n \in 0..MaxCount} \cup {BadCount}),
        i \in Optional({PyInt(n) : n \in ImpressionValues} \cup {BadCount})}

\* The metrics mappings with every subset of the four counts omitted.
MetricSubsets ==
    {DictOf([likes |-> l, comments |-> c, shares |-> s, impressions |-> i]) :
        l \in Optional({PyInt(2)}), c \in Optional({PyInt(1)}),
        s \in Optional({PyInt(1)}), i \in Optional({PyInt(100)})}

\* Metrics whose processing raises after the aggregation loop has run: no
\* count is a number, and the impressions are negative.
LateFailingMetrics ==
    PyDict([likes |-> BadCount, comments |-> BadCount, shares |-> BadCount,
            impressions |-> PyInt(-5)])

\* The inputs of execute_workflow in SpecCall.
CallWorkflowInputs ==
    {PyNone} \cup
    {DictOf([query |-> q, topic |-> tp, tone |-> tn, hashtags |-> h, metrics |-> m]) :
        q \in Optional({PyStr("AI trends")}),
        tp \in Optional({PyStr(<<>>), PyStr(TopicArtificialIntelligence), PyStr(LongTopic)}),
        tn \in Optional({PyStr(ToneCasual)}),
        h \in Optional(HashtagLists),
        m \in Optional(MetricSubsets \cup
                       {LateFailingMetrics,
                        PyDict([likes |-> PyInt(10)]),
                        PyDict([likes |-> PyInt(0), comments |-> PyInt(0),
                                shares |-> PyInt(0)]),
                        PyDict([likes |-> PyInt(3), impressions |-> PyInt(0)]),
                        PyDict([likes |-> BadCount])})}

\* The inputs of a direct ContentGeneratorAgent.execute in SpecCall: each
\* key omitted or given; a style with a template and one without.
CallContentInputs ==
    {d \in {DictOf([topic |-> tp, tone |-> tn, style |-> st, hashtags |-> h]).v :
                tp \in Optional({PyStr(<<>>), PyStr(TopicArtificialIntelligence),
                                 PyStr(LongTopic)}),
                tn \in Optional({PyStr(ToneCasual)}),
                st \in Optional({PyStr("news"), PyStr("haiku")}),
                h \in Optional(HashtagLists)} :
        DOMAIN d \subseteq {"topic", "tone", "style", "hashtags"}}

\* The texts handed to _optimize_for_platform in SpecCall: of every length
\* around the limit, and the text generated for each topic.
CallTexts ==
    {[i \in 1..n |-> "x"] : n \in (TwitterLimit - 2)..(TwitterLimit + 2)}
        \cup {GenerateContent(PyStr(tp), PyStr(ToneProfessional), PyStr("conversational")) :
                 tp \in {<<>>, TopicArtificialIntelligence, LongTopic}}

(***************************************************************************)
(* The operations as actions.                                              *)
(***************************************************************************)
\* The orchestrator and its agents after AgentOrchestrator.__init__.
FreshWorld ==
    [execution_history |-> <<>>,
     state |-> EmptyState,
     memory |-> [a \in AgentNames |-> <<>>],
     trends_cache |-> <<>>,
     metrics_history |-> <<>>,
     aggregated_metrics |-> [key \in MetricKeys |-> 0]]

\* The state after AgentOrchestrator.__init__.
Fresh ==
    /\ execution_history = FreshWorld.execution_history
    /\ state = FreshWorld.state
    /\ memory = FreshWorld.memory
    /\ trends_cache = FreshWorld.trends_cache
    /\ metrics_history = FreshWorld.metrics_history
    /\ aggregated_metrics = FreshWorld.aggregated_metrics
    /\ now = 0
    /\ ret = [op |-> "__init__", args |-> <<>>, out |-> Return(PyNone)]
    /\ monitor = [pc |-> "idle", interval |-> DefaultInterval]
    /\ loop = [running |-> 0, tasks |-> <<>>]

\* The variables take the agents' state w.
Install(w) ==
    /\ execution_history' = w.execution_history
    /\ state' = w.state
    /\ memory' = w.memory
    /\ trends_cache' = w.trends_cache
    /\ metrics_history' = w.metrics_history
    /\ aggregated_metrics' = w.aggregated_metrics

\* What the caller of a method sees of its outcome.
Outcome(out) == IF out.raised THEN Raise(out.cls, out.msg) ELSE Return(out.value)

\* await orchestrator.execute_workflow(input_params): the three steps in
\* turn, each on the state the one before left; the first exception ends the
\* try block and is handed to the except branch.
Workflow(input_params) ==
    \E workflow_id \in {now} :
    \E s1 \in {TrendStep(World, input_params, now)} :
    \E s2 \in {IF s1.raised THEN s1 ELSE ContentStep(s1.w, input_params, s1.value, now)} :
    \E s3 \in {IF s2.raised THEN s2 ELSE EngagementStep(s2.w, input_params, now)} :
    \E out \in {IF s1.raised \/ s2.raised \/ s3.raised
                THEN Catch(workflow_id, s3, now)
                ELSE Finish(s3.w, workflow_id, s2.value, s3.value, now)} :
        /\ Install(out.w)
        /\ now' = now + 1
        /\ ret' = [op |-> "execute_workflow", args |-> input_params, out |-> Outcome(out)]
        /\ UNCHANGED config

\* await orchestrator.get_agent("engagement_tracker").execute({"metrics_data": m})
TrackerCall(metrics_data) ==
    \E out \in {TrackerExecute(World, [metrics_data |-> metrics_data], now)} :
        /\ Install(out.w)
        /\ now' = now + 1
        /\ ret' = [op |-> "tracker.execute", args |-> metrics_data, out |-> Outcome(out)]
        /\ UNCHANGED <<config, monitor, loop>>

\* await orchestrator.get_agent("engagement_tracker").process(message)
TrackerProcessCall(message) ==
    \E out \in {TrackerProcess(World, message, now)} :
        /\ Install(out.w)
        /\ now' = now + 1
        /\ ret' = [op |-> "tracker.process", args |-> message, out |-> Outcome(out)]
        /\ UNCHANGED <<config, monitor, loop>>

\* await orchestrator.get_agent("content_generator")._optimize_for_platform(content)
OptimizeCall(content) ==
    /\ ret' = [op |-> "_optimize_for_platform", args |-> content,
               out |-> Return(OptimizeForPlatform(content))]
    /\ now' = now + 1
    /\ UNCHANGED <<config, execution_history, state, memory, trends_cache,
                   metrics_history, aggregated_metrics, monitor, loop>>

\* await orchestrator.get_agent("trend_monitor").execute(input_data)
TrendCall(input_data) ==
    \E out \in {TrendExecute(World, input_data, now)} :
        /\ Install(out.w)
        /\ now' = now + 1
        /\ ret' = [op |-> "trend.execute", args |-> input_data, out |-> Outcome(out)]
        /\ UNCHANGED <<config, monitor, loop>>

\* await orchestrator.get_agent("content_generator").execute(input_data)
ContentCall(input_data) ==
    \E out \in {ContentExecute(World, input_data, now)} :
        /\ Install(out.w)
        /\ now' = now + 1
        /\ ret' = [op |-> "content.execute", args |-> input_data, out |-> Outcome(out)]
        /\ UNCHANGED <<config, monitor, loop>>

\* orchestrator.reset_state()
ResetState ==
    /\ \E w \in {ResetStateOf(World)} : Install(w)
    /\ ret' = [op |-> "reset_state", args |-> <<>>, out |-> Return(PyNone)]
    /\ UNCHANGED <<config, now, monitor, loop>>

\* orchestrator.get_execution_history(limit)
GetExecutionHistoryCall(limit) ==
    /\ ret' = [op |-> "get_execution_history", args |-> limit,
               out |-> Return(GetExecutionHistory(execution_history, limit))]
    /\ UNCHANGED <<config, execution_history, state, memory, trends_cache,
                   metrics_history, aggregated_metrics, now, monitor, loop>>

\* orchestrator.get_current_state()
GetCurrentStateCall ==
    /\ ret' = [op |-> "get_current_state", args |-> <<>>,
               out |-> Return(GetCurrentState(World))]
    /\ UNCHANGED <<config, execution_history, state, memory, trends_cache,
                   metrics_history, aggregated_metrics, now, monitor, loop>>

\* orchestrator.get_agent(agent).add_to_memory(role, content)
AddToMemoryCall(agent, role, content) ==
    /\ memory' = [memory EXCEPT ![agent] = AddToMemory(@, role, content, now)]
    /\ now' = now + 1
    /\ ret' = [op |-> "add_to_memory", args |-> <<agent, role, content>>,
               out |-> Return(PyNone)]
    /\ UNCHANGED <<config, execution_history, state, trends_cache, metrics_history,
                   aggregated_metrics, monitor, loop>>

\* orchestrator.get_agent(agent).get_memory(limit)
GetMemoryCall(agent, limit) ==
    /\ ret' = [op |-> "get_memory", args |-> <<agent, limit>>,
               out |-> Return(GetMemory(memory[agent], limit))]
    /\ UNCHANGED <<config, execution_history, state, memory, trends_cache,
                   metrics_history, aggregated_metrics, now, monitor, loop>>

(***************************************************************************)
(* Spec: an orchestrator on any platform, driven through execute_workflow, *)
(* its accessors and reset, with the engagement tracker also driven        *)
(* directly. Every operation that reads the clock counts against MaxCalls. *)
(***************************************************************************)
Init ==
    /\ config \in [platform : SpecPlatforms, brand_voice : {PyNone}]
    /\ Fresh

ExecuteWorkflow ==
    /\ now < MaxCalls
    /\ \E input_params \in WorkflowInputs : Workflow(input_params)
    /\ UNCHANGED <<monitor, loop>>

TrackerExecuteDirect == now < MaxCalls /\ \E m \in TrackerInputs : TrackerCall(m)

TrackerProcessDirect == now < MaxCalls /\ TrackerProcessCall(PyStr("How is engagement?"))

GetExecutionHistoryAny == \E limit \in HistoryLimits : GetExecutionHistoryCall(limit)

Next ==
    \/ ExecuteWorkflow
    \/ TrackerExecuteDirect
    \/ TrackerProcessDirect
    \/ ResetState
    \/ GetExecutionHistoryAny
    \/ GetCurrentStateCall

Spec == Init /\ [][Next]_vars

(***************************************************************************)
(* SpecPipeline: an orchestrator whose agents are driven through it alone, *)
(* by execute_workflow and reset_state.                                    *)
(***************************************************************************)
NextPipeline == ExecuteWorkflow \/ ResetState

SpecPipeline == Init /\ [][NextPipeline]_vars

(***************************************************************************)
(* SpecCall: one call on a fresh orchestrator, its input drawn from the    *)
(* whole bounded input set of the method called.                           *)
(***************************************************************************)
InitCall ==
    /\ config \in [platform : Platforms, brand_voice : BrandVoices]
    /\ Fresh

CallWorkflow ==
    /\ now = 0
    /\ \E input_params \in CallWorkflowInputs : Workflow(input_params)
    /\ UNCHANGED <<monitor, loop>>

CallTracker == now = 0 /\ \E m \in CallMetrics : TrackerCall(m)

CallOptimize == now = 0 /\ \E content \in CallTexts : OptimizeCall(content)

CallContent == now = 0 /\ \E input_data \in CallContentInputs : ContentCall(input_data)

NextCall == CallWorkflow \/ CallTracker \/ CallOptimize \/ CallContent

SpecCall == InitCall /\ [][NextCall]_vars

(***************************************************************************)
(* SpecMemory: the memory of the agents, driven through add_to_memory and  *)
(* get_memory alone.                                                       *)
(***************************************************************************)
MemoryRoles == {"user", "assistant"}

AddToMemoryAny ==
    /\ now < MaxMemory
    /\ \E agent \in AgentNames, role \in MemoryRoles :
          AddToMemoryCall(agent, role, PyStr("hello"))

GetMemoryAny ==
    \E agent \in AgentNames, limit \in Limits(MaxMemory + 1) : GetMemoryCall(agent, limit)

NextMemory == AddToMemoryAny \/ GetMemoryAny

SpecMemory == Init /\ [][NextMemory]_vars

(***************************************************************************)
(* SpecTrend: the trend monitor of a fresh orchestrator, called directly   *)
(* and repeatedly.                                                         *)
(***************************************************************************)
\* The inputs of TrendMonitorAgent.execute: query and time_range, each
\* omitted or given.
TrendInputs ==
    {DictOf([query |-> q, time_range |-> r]).v :
        q \in Optional({PyStr(""), PyStr("AI trends"), PyStr("trending topics")}),
        r \in Optional({PyStr("24h"), PyStr("7d")})}

CallTrend == now < MaxCalls /\ \E input_data \in TrendInputs : TrendCall(input_data)

NextTrend == CallTrend

SpecTrend == InitCall /\ [][NextTrend]_vars

(***************************************************************************)
(* SpecMonitor: continuous_monitoring on a fresh orchestrator. The event   *)
(* loop runs the coroutine whenever it can run and the timer of a sleep    *)
(* fires, hence the weak fairness of its steps.                            *)
(***************************************************************************)
\* The input of every monitoring cycle.
MonitorInput == PyDict([query |-> PyStr("trending topics")])

\* interval_seconds
Intervals == {0, 1, DefaultInterval}

\* The brand_voice entry of the config in SpecMonitor: none, or one that is
\* no mapping, with which the content step of every workflow fails.
MonitorBrandVoices == {PyNone, PyStr("bold")}

InitMonitor ==
    /\ config \in [platform : Platforms, brand_voice : MonitorBrandVoices]
    /\ Fresh

\* A variant that leaves the loop when a cycle failed: break on an error
\* result or an exception.
AfterCycleStopOnError(out) ==
    IF out.raised \/ out.value.status = "error" THEN "done" ELSE "sleep"

\* Where the loop body goes after the await of execute_workflow, whatever
\* its outcome: try and except both fall through to the sleep.
AfterCycle(out) == "sleep"

\* await orchestrator.continuous_monitoring(interval_seconds): up to the loop
MonitorStart ==
    /\ monitor.pc = "idle"
    /\ \E interval_seconds \in Intervals :
          monitor' = [pc |-> "cycle", interval |-> interval_seconds]
    /\ UNCHANGED <<config, execution_history, state, memory, trends_cache,
                   metrics_history, aggregated_metrics, now, ret, loop>>

\* The try statement of the loop body.
MonitorCycle ==
    /\ monitor.pc = "cycle"
    /\ now < MaxCycles
    /\ Workflow(MonitorInput)
    /\ monitor' = [monitor EXCEPT !.pc = AfterCycle(ret'.out)]
    /\ UNCHANGED loop

\* await asyncio.sleep(interval_seconds), and back to the head of the loop
MonitorSleep ==
    /\ monitor.pc = "sleep"
    /\ monitor' = [monitor EXCEPT !.pc = "cycle"]
    /\ ret' = [op |-> "asyncio.sleep", args |-> monitor.interval, out |-> Return(PyNone)]
    /\ UNCHANGED <<config, execution_history, state, memory, trends_cache,
                   metrics_history, aggregated_metrics, now, loop>>

NextMonitor == MonitorStart \/ MonitorCycle \/ MonitorSleep

SpecMonitor == InitMonitor /\ [][NextMonitor]_vars /\ WF_vars(NextMonitor)

(***************************************************************************)
(* SpecGather: two execute_workflow invocations on one orchestrator,       *)
(* scheduled together on one event loop, as by                             *)
(* asyncio.gather(o.execute_workflow(a), o.execute_workflow(b)). The loop  *)
(* runs one task at a time; a task gives the loop up only at an await that *)
(* suspends, or when it is done.                                           *)
(***************************************************************************)
\* The awaits in the body of each coroutine of the workflow.
Awaits(coroutine) ==
    CASE coroutine = "AgentOrchestrator.execute_workflow" ->
             {"TrendMonitorAgent.execute", "ContentGeneratorAgent.execute",
              "EngagementTrackerAgent.execute"}
      [] coroutine = "TrendMonitorAgent.execute" ->
             {"TrendMonitorAgent._collect_trends", "TrendMonitorAgent._analyze_trends",
              "TrendMonitorAgent._generate_insights"}
      [] coroutine = "ContentGeneratorAgent.execute" ->
             {"ContentGeneratorAgent._generate_content",
              "ContentGeneratorAgent._optimize_for_platform"}
      [] coroutine = "EngagementTrackerAgent.execute" ->
             {"EngagementTrackerAgent._process_metrics",
              "EngagementTrackerAgent._analyze_performance",
              "EngagementTrackerAgent._generate_recommendations"}
      [] OTHER -> {}

\* A variant in which the agents do the I/O their stubs stand for: every
\* await of an agent's execute waits on the network.
SuspendsOnAgentCall(coroutine) ==
    coroutine \in Awaits("AgentOrchestrator.execute_workflow")

\* An await of the coroutine hands the loop over: only an await that reaches
\* a future does, as that of asyncio.sleep; awaiting a coroutine runs its
\* body in place.
RECURSIVE Suspends(_)
Suspends(coroutine) ==
    \/ coroutine = "asyncio.sleep"
    \/ \E awaited \in Awaits(coroutine) : Suspends(awaited)

\* The coroutine a task at pc is about to await, or is suspended in.
AwaitedAt(pc) ==
    CASE pc = "trend" -> "TrendMonitorAgent.execute"
      [] pc = "content" -> "ContentGeneratorAgent.execute"
      [] pc = "engagement" -> "EngagementTrackerAgent.execute"

\* A task of execute_workflow(input_params) that has not run yet, its locals
\* unassigned.
NewTask(input_params) ==
    [pc |-> "pending",
     input_params |-> input_params,
     workflow_id |-> PyNone,
     trend_result |-> PyNone,
     content_result |-> PyNone,
     out |-> Return(PyNone)]

\* The loop may run task i, which is at pc.
Runnable(i, pc) ==
    /\ i \in DOMAIN loop.tasks
    /\ loop.running \in {0, i}
    /\ loop.tasks[i].pc = pc

\* Task i, now as task, has reached its next await on the agents' state w.
Reach(i, w, task) ==
    /\ Install(w)
    /\ loop' = [running |-> IF Suspends(AwaitedAt(task.pc)) THEN 0 ELSE i,
                tasks |-> [loop.tasks EXCEPT ![i] = task]]
    /\ UNCHANGED <<config, monitor, ret>>

\* Task i is done with outcome out: a result returned from the try block
\* or from the except branch, or an exception the branch does not catch.
Complete(i, out) ==
    /\ Install(out.w)
    /\ loop' = [running |-> 0,
                tasks |-> [loop.tasks EXCEPT ![i].pc = "done", ![i].out = Outcome(out)]]
    /\ ret' = [op |-> "execute_workflow", args |-> loop.tasks[i].input_params,
               out |-> Outcome(out)]
    /\ UNCHANGED <<config, monitor>>

\* asyncio.gather(o.execute_workflow(a), o.execute_workflow(b))
Gather ==
    /\ loop.tasks = <<>>
    /\ \E a, b \in WorkflowInputs :
          /\ loop' = [running |-> 0, tasks |-> <<NewTask(a), NewTask(b)>>]
          /\ ret' = [op |-> "asyncio.gather", args |-> <<a, b>>, out |-> Return(PyNone)]
    /\ UNCHANGED <<config, execution_history, state, memory, trends_cache,
                   metrics_history, aggregated_metrics, now, monitor>>

\* The loop starts task i: the workflow id is read from the clock and the
\* query from the parameters, up to the await of the trend agent.
TaskBegin(i) ==
    /\ Runnable(i, "pending")
    /\ now' = now + 1
    /\ \E task \in {loop.tasks[i]}, query \in {PyGet(loop.tasks[i].input_params, "query", PyStr(""))} :
          IF query.raised
          THEN Complete(i, Catch(now, Raised(World, query), now))
          ELSE Reach(i, World, [task EXCEPT !.pc = "trend", !.workflow_id = now])

\* Step 1 of task i, up to the await of the content agent.
TaskTrend(i) ==
    /\ Runnable(i, "trend")
    /\ \E task \in {loop.tasks[i]} :
       \E s1 \in {TrendStep(World, task.input_params, task.workflow_id)} :
          IF s1.raised
          THEN Complete(i, Catch(task.workflow_id, s1, task.workflow_id))
          ELSE Reach(i, s1.w, [task EXCEPT !.pc = "content", !.trend_result = s1.value])
    /\ UNCHANGED now

\* Step 2 of task i, up to the await of the engagement tracker.
TaskContent(i) ==
    /\ Runnable(i, "content")
    /\ \E task \in {loop.tasks[i]} :
       \E s2 \in {ContentStep(World, task.input_params, task.trend_result,
                              task.workflow_id)} :
          IF s2.raised
          THEN Complete(i, Catch(task.workflow_id, s2, task.workflow_id))
          ELSE Reach(i, s2.w, [task EXCEPT !.pc = "engagement", !.content_result = s2.value])
    /\ UNCHANGED now

\* Step 3 of task i and the end of its try block.
TaskEngagement(i) ==
    /\ Runnable(i, "engagement")
    /\ \E task \in {loop.tasks[i]} :
       \E s3 \in {EngagementStep(World, task.input_params, task.workflow_id)} :
          IF s3.raised
          THEN Complete(i, Catch(task.workflow_id, s3, task.workflow_id))
          ELSE Complete(i, Finish(s3.w, task.workflow_id, task.content_result, s3.value,
                                  task.workflow_id))
    /\ UNCHANGED now

\* The loop runs a task that can run, from where it is to its next await.
RunBegin == \E i \in DOMAIN loop.tasks : TaskBegin(i)

RunTrend == \E i \in DOMAIN loop.tasks : TaskTrend(i)

RunContent == \E i \in DOMAIN loop.tasks : TaskContent(i)

RunEngagement == \E i \in DOMAIN loop.tasks : TaskEngagement(i)

NextGather == Gather \/ RunBegin \/ RunTrend \/ RunContent \/ RunEngagement

SpecGather == Init /\ [][NextGather]_vars

(***************************************************************************)
(* The claims.                                                             *)
(***************************************************************************)
\* The last operation was execute_workflow, called with a mapping.
WorkflowCalled == ret.op = "execute_workflow"

WorkflowCalledWithDict == WorkflowCalled /\ ret.args.t = "dict"

\* What the content agent and the engagement tracker do on the parameters of
\* the last execute_workflow call: whether they raise depends on the
\* parameters alone.
ContentOutcome ==
    ContentExecute(FreshWorld,
                   [topic |-> PyStr(<<>>),
                    tone |-> Get(ret.args.v, "tone", PyNone),
                    hashtags |-> Get(ret.args.v, "hashtags", PyList(<<>>))],
                   0)

EngagementOutcome ==
    TrackerExecute(FreshWorld,
                   [metrics_data |-> Get(ret.args.v, "metrics", PyDict(<<>>))],
                   0)

\* The last execute_workflow returned an error result carrying message msg.
ReturnedError(msg) ==
    /\ ~ret.out.raised
    /\ ret.out.value.status = "error"
    /\ ret.out.value.error = msg

\* C1: execute_workflow never raises to its caller, whatever its input: when
\* a sub-agent's execute call raises (or the input is no mapping), it
\* returns a result of status "error" whose error field is the exception's
\* message, and otherwise a result of status "success".
C1_NoErrorCrossesBoundary ==
    WorkflowCalled =>
        /\ ~ret.out.raised
        /\ IF ret.args.t # "dict"
           THEN ReturnedError(PyGet(ret.args, "query", PyStr("")).msg)
           ELSE IF ContentOutcome.raised
           THEN ReturnedError(ContentOutcome.msg)
           ELSE IF EngagementOutcome.raised
           THEN ReturnedError(EngagementOutcome.msg)
           ELSE ret.out.value.status = "success"

\* A workflow whose engagement step raised a TypeError after the content
\* step had completed.
C1_Witness ==
    /\ WorkflowCalledWithDict
    /\ ~ret.out.raised
    /\ ret.out.value.status = "error"
    /\ ret.out.value.error = "can only concatenate str (not \"int\") to str"
    /\ Len(memory["content_generator"]) = 1

\* The last operation was EngagementTrackerAgent.execute on a metrics
\* mapping whose counts are numbers or omitted.
CountGiven(key) == key \in DOMAIN ret.args.v

CountIsNumber(key) == CountGiven(key) => ret.args.v[key].t = "int"

TrackerCalledWithCounts ==
    /\ ret.op = "tracker.execute"
    /\ ret.args.t = "dict"
    /\ \A key \in {"likes", "comments", "shares", "impressions"} : CountIsNumber(key)

\* likes + comments + shares of the arguments, an omitted count being 0
CountOf(key) == IF CountGiven(key) THEN ret.args.v[key].v ELSE 0

TotalGiven == CountOf("likes") + CountOf("comments") + CountOf("shares")

ZeroImpressionsCall ==
    /\ TrackerCalledWithCounts
    /\ CountGiven("impressions")
    /\ ret.args.v.impressions.v = 0

WorkflowStep == now' # now /\ ret'.op = "execute_workflow"

\* C3 as stated: every result of execute_workflow, of status success or
\* error, is appended to the execution history.
C3_Original ==
    [][WorkflowStep => execution_history' = Append(execution_history, ret'.out.value)]_vars

\* The execution history holds success results alone, in invocation order:
\* their workflow ids, which are the times of invocation, increase.
HistoryInInvocationOrder ==
    /\ \A i \in 1..Len(execution_history) : execution_history[i].status = "success"
    /\ \A i, j \in 1..Len(execution_history) :
          i < j => execution_history[i].workflow_id < execution_history[j].workflow_id

\* C3 as amended: a result of status success is appended to the execution
\* history and a result of status error is not recorded; no other operation
\* changes the history, so no entry is ever removed; the history holds the
\* successful results in invocation order, and get_execution_history()
\* returns all of it.
C3_SuccessesRecorded ==
    /\ [][IF WorkflowStep /\ ret'.out.value.status = "success"
          THEN execution_history' = Append(execution_history, ret'.out.value)
          ELSE execution_history' = execution_history]_vars
    /\ []HistoryInInvocationOrder
    /\ [](ret.op = "get_execution_history" /\ ret.args.t = "NoneType"
            => ret.out.value = execution_history)

\* A failed invocation after a successful one: two invocations, one entry.
C3_Witness ==
    /\ WorkflowCalled
    /\ ret.out.value.status = "error"
    /\ now = 2
    /\ Len(execution_history) = 1

\* The content step of the last execute_workflow completed: its result is
\* the one entry of the generated content of the state.
ContentGenerated == WorkflowCalledWithDict /\ Len(state.generated_content) = 1

TopicPassed == state.generated_content[1].topic

FirstTrendTopic == state.trends[1].topic

\* C4 as stated: an explicit topic, the empty string included, is passed
\* verbatim to the content agent; with no topic, the topic passed is the
\* topic of the first trend.
C4_Original ==
    ContentGenerated =>
        IF "topic" \in DOMAIN ret.args.v
        THEN TopicPassed = ret.args.v.topic
        ELSE TopicPassed = FirstTrendTopic

\* C4 as amended: an explicit non-empty topic is passed verbatim to the
\* content agent; with no topic, or with the empty string as topic, the
\* topic passed is the topic of the first trend.
C4_TopicResolution ==
    ContentGenerated =>
        IF "topic" \in DOMAIN ret.args.v /\ Len(ret.args.v.topic.v) > 0
        THEN TopicPassed = ret.args.v.topic
        ELSE /\ TopicPassed = FirstTrendTopic
             /\ TopicPassed = PyStr(TopicAIRevolution)

\* A workflow given the empty string as topic, whose content was generated.
C4_Witness ==
    /\ ContentGenerated
    /\ "topic" \in DOMAIN ret.args.v
    /\ Len(ret.args.v.topic.v) = 0

\* The last operation was get_memory(limit) on an agent.
MemoryRead == ret.op = "get_memory"

MemoryOfRead == memory[ret.args[1]]

LimitOfRead == ret.args[2]

\* The last k entries of mem.
LastEntries(mem, k) == SubSeq(mem, Len(mem) - k + 1, Len(mem))

\* Every add_to_memory call so far left exactly one entry, and each memory
\* holds its entries in call order: their timestamps increase.
MemoryInCallOrder ==
    /\ Sum([i \in 1..3 |->
               Len(memory[<<"trend_monitor", "content_generator", "engagement_tracker">>[i]])])
           = now
    /\ \A a \in AgentNames : \A i, j \in 1..Len(memory[a]) :
          i < j => memory[a][i].timestamp < memory[a][j].timestamp
    /\ ret.op = "add_to_memory" =>
          LET mem == memory[ret.args[1]]
          IN  /\ Len(mem) > 0
              /\ mem[Len(mem)].role = ret.args[2]
              /\ mem[Len(mem)].content = ret.args[3]
              /\ mem[Len(mem)].timestamp = now - 1

\* C5: memory is append-only and order-preserving: after N calls to
\* add_to_memory, get_memory() with no limit returns exactly the N entries
\* in call order, and get_memory(K) returns exactly the last K entries for
\* every K with 0 <= K <= N.
C5_MemoryAppendOnly ==
    /\ MemoryInCallOrder
    /\ (MemoryRead /\ LimitOfRead.t = "NoneType") => ret.out.value = MemoryOfRead
    /\ (MemoryRead /\ LimitOfRead.t = "int" /\ LimitOfRead.v <= Len(MemoryOfRead)) =>
          /\ Len(ret.out.value) = LimitOfRead.v
          /\ ret.out.value = LastEntries(MemoryOfRead, LimitOfRead.v)

\* What the code does where C5 fails: a limit of 0 is taken for no limit,
\* and the read returns the whole memory; every other case of C5 holds.
MemoryReadOfZero ==
    /\ MemoryInCallOrder
    /\ MemoryRead =>
          IF LimitOfRead.t = "int" /\ LimitOfRead.v >= 1
                /\ LimitOfRead.v <= Len(MemoryOfRead)
          THEN ret.out.value = LastEntries(MemoryOfRead, LimitOfRead.v)
          ELSE (LimitOfRead.t = "NoneType" \/ LimitOfRead.v = 0) =>
                   ret.out.value = MemoryOfRead

\* The last operation was _optimize_for_platform on the twitter platform.
TwitterOptimized == ret.op = "_optimize_for_platform" /\ config.platform = "twitter"

\* C6: on twitter, post-processing cuts a text longer than 280 characters
\* to its first 280 characters and leaves a shorter text unchanged, so the
\* post-processed text is never longer than 280 characters.
C6_TwitterTruncation ==
    TwitterOptimized =>
        /\ Len(ret.out.value) <= 280
        /\ IF Len(ret.args) > 280
           THEN /\ Len(ret.out.value) = 280
                /\ \A i \in 1..280 : ret.out.value[i] = ret.args[i]
           ELSE ret.out.value = ret.args

\* A generated text longer than the limit was cut.
C6_Witness ==
    /\ TwitterOptimized
    /\ Len(ret.args) > 281
    /\ Len(ret.out.value) = 280
    /\ ret.args[1] = "L"

\* field f summed over the processed metrics of every call recorded so far
SumOfProcessed(f) ==
    Sum([i \in 1..Len(metrics_history) |-> metrics_history[i].metrics[f].v])

\* s is a prefix of t
IsPrefix(s, t) == Len(s) <= Len(t) /\ SubSeq(t, 1, Len(s)) = s

TrackerReturned == ret.op = "tracker.execute" /\ ~ret.out.raised

\* C8: the status is a total, non-overlapping function of the rounded
\* engagement_rate: >= 0.08 excellent, >= 0.05 good, >= 0.03 average, and
\* needs_improvement below.
C8_StatusLadder ==
    TrackerReturned =>
        LET rate == ret.out.value.metrics.engagement_rate
            status == ret.out.value.analysis.status
        IN  /\ ret.out.value.analysis.engagement_rate = rate
            /\ status \in {"excellent", "good", "average", "needs_improvement"}
            /\ status = "excellent" <=> rate >= 800
            /\ status = "good" <=> (rate >= 500 /\ rate < 800)
            /\ status = "average" <=> (rate >= 300 /\ rate < 500)
            /\ status = "needs_improvement" <=> rate < 300

\* A rate of exactly 0.05, the lowest that is good.
C8_Witness ==
    /\ TrackerReturned
    /\ ret.out.value.metrics.engagement_rate = 500
    /\ ret.out.value.analysis.status = "good"

\* The impressions of the arguments, 1 when omitted.
ImpressionsGiven == IF CountGiven("impressions") THEN ret.args.v.impressions.v ELSE 1

\* |x|
Abs(x) == IF x < 0 THEN -x ELSE x

\* C9: with impressions >= 1, engagement_rate is (likes + comments +
\* shares) / impressions rounded to 4 decimals (to the nearest, a tie going
\* to the even digit), an omitted count being 0; with impressions omitted
\* they are 1 and the rate is total_interactions.
C9_RateIsRoundedQuotient ==
    (TrackerCalledWithCounts /\ ImpressionsGiven >= 1) =>
        /\ ~ret.out.raised
        /\ ret.out.value.metrics.total_interactions.v = TotalGiven
        /\ ret.out.value.metrics.impressions.v = ImpressionsGiven
        /\ LET rate == ret.out.value.metrics.engagement_rate
               off == Abs(rate * ImpressionsGiven - TotalGiven * 10000)
           IN  /\ 2 * off <= ImpressionsGiven
               /\ 2 * off = ImpressionsGiven => rate % 2 = 0
               /\ ~CountGiven("impressions") => rate = TotalGiven * 10000

\* 3 / 32 = 0.09375, a tie, is reported as 0.0938.
C9_Witness ==
    /\ TrackerCalledWithCounts
    /\ ImpressionsGiven = 32
    /\ TotalGiven = 3
    /\ ret.out.value.metrics.engagement_rate = 938

\* The last execute_workflow was given no metrics, or an empty mapping, and
\* parameters that make no step fail.
EmptyMetricsWorkflow ==
    /\ WorkflowCalledWithDict
    /\ "metrics" \in DOMAIN ret.args.v =>
          (ret.args.v.metrics.t = "dict" /\ DOMAIN ret.args.v.metrics.v = {})
    /\ ~ContentOutcome.raised

\* The metrics the tracker processed in its last call.
LastProcessed == metrics_history[Len(metrics_history)].metrics

ZeroCounts ==
    /\ Len(metrics_history) > 0
    /\ LastProcessed.likes.v = 0
    /\ LastProcessed.comments.v = 0
    /\ LastProcessed.shares.v = 0
    /\ LastProcessed.total_interactions.v = 0
    /\ LastProcessed.engagement_rate = 0

\* C10 as stated: a workflow with empty or omitted metrics succeeds with an
\* analysis of all-zero metrics: likes, comments, shares, impressions (the
\* reach) and total_interactions are 0, the rate is 0.0 and the status is
\* needs_improvement.
C10_Original ==
    EmptyMetricsWorkflow =>
        /\ ret.out.value.status = "success"
        /\ ZeroCounts
        /\ LastProcessed.impressions.v = 0
        /\ ret.out.value.engagement_analysis.reach.v = 0
        /\ ret.out.value.engagement_analysis.engagement_rate = 0
        /\ ret.out.value.engagement_analysis.status = "needs_improvement"

\* C10 as amended: a workflow with empty or omitted metrics (and parameters
\* that make no step fail) succeeds with likes, comments, shares and
\* total_interactions 0, rate 0.0 and status needs_improvement, while
\* impressions, and so the reach of the analysis, are 1, the default of an
\* omitted impressions count.
C10_EmptyMetrics ==
    EmptyMetricsWorkflow =>
        /\ ret.out.value.status = "success"
        /\ ZeroCounts
        /\ LastProcessed.impressions.v = 1
        /\ ret.out.value.engagement_analysis.reach.v = 1
        /\ ret.out.value.engagement_analysis.engagement_rate = 0
        /\ ret.out.value.engagement_analysis.status = "needs_improvement"

\* A successful workflow that was given the empty mapping as metrics.
C10_Witness ==
    /\ EmptyMetricsWorkflow
    /\ "metrics" \in DOMAIN ret.args.v
    /\ ret.out.value.status = "success"

\* The parameters of the last execute_workflow are a mapping in which every
\* recognized key is omitted or given a value of its kind: strs, a list of
\* strs, a metrics mapping whose counts are omitted or numbers.
GivenOrOmitted(key, Valid(_)) == key \in DOMAIN ret.args.v => Valid(ret.args.v[key])

IsStr(x) == x.t = "str"

IsStrList(x) == x.t = "list" /\ \A i \in 1..Len(x.v) : x.v[i].t = "str"

IsCounts(x) ==
    /\ x.t = "dict"
    /\ \A key \in DOMAIN x.v : x.v[key].t = "int"

WellFormedParams ==
    /\ WorkflowCalledWithDict
    /\ GivenOrOmitted("query", IsStr)
    /\ GivenOrOmitted("topic", IsStr)
    /\ GivenOrOmitted("tone", IsStr)
    /\ GivenOrOmitted("hashtags", IsStrList)
    /\ GivenOrOmitted("metrics", IsCounts)

\* C11: missing input fields are defaulted, never raised: whichever of
\* query, topic, tone, hashtags and metrics are omitted, and whichever of
\* likes, comments, shares and impressions are omitted from the metrics,
\* execute_workflow returns a result of status "success".
C11_MissingFieldsDefaulted ==
    WellFormedParams =>
        /\ ~ret.out.raised
        /\ ret.out.value.status = "success"
        /\ Len(execution_history) = 1

\* A successful workflow given metrics with nothing but the impressions,
\* and neither topic nor hashtags.
C11_Witness ==
    /\ WellFormedParams
    /\ DOMAIN ret.args.v = {"metrics"}
    /\ DOMAIN ret.args.v.metrics.v = {"impressions"}
    /\ ret.out.value.status = "success"

\* C12: continuous_monitoring never terminates on its own: once started it
\* is always in a cycle or in a sleep; every cycle invokes execute_workflow
\* once with the query "trending topics" and is followed by a sleep of the
\* interval, also when the result has status error; a sleep lies between
\* two consecutive invocations; and the next cycle always comes (here up
\* to MaxCycles cycles).
C12_MonitoringNeverEnds ==
    /\ [](monitor.pc \in {"idle", "cycle", "sleep"})
    /\ [][monitor.pc # "idle" => monitor'.pc # "idle"]_vars
    /\ [](ret.op = "execute_workflow" => (ret.args = MonitorInput /\ ~ret.out.raised))
    /\ [][WorkflowStep =>
            /\ monitor.pc = "cycle"
            /\ monitor'.pc = "sleep"
            /\ ret.op # "execute_workflow"]_vars
    /\ [][ret'.op = "asyncio.sleep" =>
            /\ ret.op = "execute_workflow"
            /\ ret'.args = monitor.interval
            /\ monitor'.pc = "cycle"]_vars
    /\ (monitor.pc = "sleep") ~> (monitor.pc = "cycle")
    /\ (monitor.pc = "cycle" /\ now < MaxCycles) ~> (monitor.pc = "sleep")
    /\ <>(now >= MaxCycles)

\* Three cycles have failed, each with an error result, and the loop is at
\* the head of the fourth.
C12_Witness ==
    /\ monitor.pc = "cycle"
    /\ ret.op = "asyncio.sleep"
    /\ now = 3
    /\ Len(memory["trend_monitor"]) = 3
    /\ execution_history = <<>>

\* The entries a step adds to the memory of agent a.
Grown(a) == Len(memory'[a]) - Len(memory[a])

\* The result an agent recorded last in its memory.
LastRecorded(mem) == mem[Len(mem)].content.v

\* C13: within one execute_workflow invocation the three agent calls run in
\* the order trend, content, engagement, each at most once and each
\* completing (its memory entry appended) before the next begins: a later
\* agent has run only if the earlier ones completed, the content agent works
\* on the trends this invocation collected, and the result is a success
\* exactly when the engagement agent, the last, completed; if a step fails
\* no later step is started, and nothing is retried.
C13_StepsInOrder ==
    [][WorkflowStep =>
        /\ \A a \in AgentNames : Grown(a) \in {0, 1} /\ IsPrefix(memory[a], memory'[a])
        /\ Grown("engagement_tracker") <= Grown("content_generator")
        /\ Grown("content_generator") <= Grown("trend_monitor")
        /\ Grown("trend_monitor") = 1 <=> ret'.args.t = "dict"
        /\ Grown("trend_monitor") = 1 =>
              /\ LastRecorded(memory'["trend_monitor"]).timestamp = now
              /\ state'.trends = LastRecorded(memory'["trend_monitor"]).trends
        /\ Grown("content_generator") = 1 =>
              /\ LastRecorded(memory'["content_generator"]).timestamp = now
              /\ "topic" \notin DOMAIN ret'.args.v =>
                    LastRecorded(memory'["content_generator"]).topic =
                        LastRecorded(memory'["trend_monitor"]).trends[1].topic
        /\ Len(state'.generated_content) - Len(state.generated_content)
              = Grown("content_generator")
        /\ Len(metrics_history') - Len(metrics_history) = Grown("engagement_tracker")
        /\ Grown("engagement_tracker") = 1 <=> ret'.out.value.status = "success"
    ]_vars

\* A second invocation that failed in its content step, after a first that
\* succeeded: the trend agent has run twice, the two others once.
C13_Witness ==
    /\ WorkflowCalledWithDict
    /\ ret.out.value.status = "error"
    /\ Len(memory["trend_monitor"]) = 2
    /\ Len(memory["content_generator"]) = 1
    /\ Len(memory["engagement_tracker"]) = 1
    /\ Len(execution_history) = 1

\* The last execute_workflow, called on a fresh orchestrator, returned an
\* error result after its steps up to and including step n had completed.
FailedAfterStep(n) ==
    /\ WorkflowCalledWithDict
    /\ ret.out.value.status = "error"
    /\ n = Len(memory["trend_monitor"]) + Len(memory["content_generator"])
             + Len(memory["engagement_tracker"])

\* C14: when a workflow step fails there is no rollback and no partial
\* result: what the earlier steps did persists (the trends replaced in the
\* state and cached, the content result appended to generated_content, the
\* memory entries, and what the tracker had added to its aggregate before
\* it failed), the execution history is left as it was, and the error
\* result carries workflow_id, status, error and timestamp alone.
C14_NoRollback ==
    (WorkflowCalled /\ ret.out.value.status = "error") =>
        /\ DOMAIN ret.out.value = {"workflow_id", "status", "error", "timestamp"}
        /\ execution_history = <<>>
        /\ state.engagement_metrics = <<>>
        /\ metrics_history = <<>>
        /\ memory["engagement_tracker"] = <<>>
        /\ ret.args.t = "dict" =>
              /\ Len(memory["trend_monitor"]) = 1
              /\ Len(state.trends) = 3
              /\ state.trends = trends_cache
              /\ state.trends = LastRecorded(memory["trend_monitor"]).trends
              /\ Len(state.generated_content) = Len(memory["content_generator"])
              /\ Len(state.generated_content) = 1 =>
                    state.generated_content[1] = LastRecorded(memory["content_generator"])
              /\ (Len(state.generated_content) = 1
                    /\ Get(ret.args.v, "metrics", PyNone) = LateFailingMetrics)
                      => aggregated_metrics.impressions = -5

\* A workflow whose tracker failed after it had added the impressions to
\* its aggregate: the trends, the content and the aggregate are kept.
C14_Witness ==
    /\ FailedAfterStep(2)
    /\ Len(state.generated_content) = 1
    /\ aggregated_metrics.impressions = -5
    /\ ret.out.value.error = "'>' not supported between instances of 'str' and 'int'"

\* The last operation was TrendMonitorAgent.execute.
TrendCalled == ret.op = "trend.execute"

\* What a trend result says, its timestamp and platform aside.
TrendFindings(result) == <<result.trends, result.analysis, result.insights>>

\* C15: TrendMonitorAgent.execute is independent of its input: any two
\* invocations, whatever their query and time_range, return the same
\* trends, analysis and insights: the three records #AIRevolution,
\* #GenerativeAI, #TechInnovation in this order; positive sentiment and
\* rising momentum 2/3, average volume 310000/3, engagement potential
\* "high"; all three threshold insights, and never the fallback insight.
C15_TrendsIgnoreInput ==
    /\ [][(TrendCalled /\ ret'.op = "trend.execute") =>
            TrendFindings(ret'.out.value) = TrendFindings(ret.out.value)]_vars
    /\ [](TrendCalled =>
            LET result == ret.out.value
            IN  /\ ~ret.out.raised
                /\ Len(result.trends) = 3
                /\ \A i \in 1..3 : result.trends[i].rank = i
                /\ result.trends[1].topic.v = <<"#", "A", "I", "R", "e", "v", "o", "l", "u",
                                                "t", "i", "o", "n">>
                /\ result.trends[2].topic.v = <<"#", "G", "e", "n", "e", "r", "a", "t", "i",
                                                "v", "e", "A", "I">>
                /\ result.trends[3].topic.v = <<"#", "T", "e", "c", "h", "I", "n", "n", "o",
                                                "v", "a", "t", "i", "o", "n">>
                /\ <<result.trends[1].volume, result.trends[2].volume,
                      result.trends[3].volume>> = <<125000, 98000, 87000>>
                /\ result.analysis.total_trends = 3
                /\ 3 * result.analysis.positive_sentiment.num
                      = 2 * result.analysis.positive_sentiment.den
                /\ 3 * result.analysis.rising_momentum.num
                      = 2 * result.analysis.rising_momentum.den
                /\ 3 * result.analysis.avg_volume.num = 310000 * result.analysis.avg_volume.den
                /\ result.analysis.engagement_potential = "high"
                /\ result.insights =
                      <<"Strong positive sentiment detected - optimal for brand promotion",
                        "Multiple rising trends identified - recommend content alignment",
                        "High engagement volume detected - prioritize relevant content">>
                /\ trends_cache = result.trends)

\* A second invocation, with an empty query and another time range than
\* the first.
C15_Witness ==
    /\ TrendCalled
    /\ now = 2
    /\ ret.args = [query |-> PyStr(""), time_range |-> PyStr("7d")]
    /\ Len(memory["trend_monitor"]) = 2
    /\ LastRecorded(memory["trend_monitor"]).insights = ret.out.value.insights

\* The recommendation of each status bucket.
BucketRecommendation ==
    [excellent |-> "Excellent engagement! Continue current strategy.",
     good |-> "Good performance. Consider A/B testing new content formats.",
     average |-> "Average engagement. Try increasing content frequency.",
     needs_improvement |-> "Low engagement. Review content quality and posting times."]

\* percent, in 10^-2 units, is part / total * 100 rounded to 2 decimals,
\* and 0 when the total is 0.
IsPercentOf(percent, part, total) ==
    IF total = 0 THEN percent = 0
    ELSE 2 * Abs(percent * total - part * 10000) <= total

\* C16: the recommendations of EngagementTrackerAgent.execute start with
\* the one recommendation of the status bucket, followed by the discussion
\* add-on iff comments_percent < 20 and then by the sharing add-on iff
\* shares_percent < 10, the percentages being those of comments and shares
\* in total_interactions; so there are 1 to 3 of them, and all 3 when
\* total_interactions is 0.
C16_Recommendations ==
    TrackerReturned =>
        LET recs == ret.out.value.recommendations
            analysis == ret.out.value.analysis
            comments_percent == analysis.engagement_breakdown.comments_percent
            shares_percent == analysis.engagement_breakdown.shares_percent
            discussion == IF comments_percent < 2000
                          THEN <<"Consider adding more discussion-prompting questions.">>
                          ELSE <<>>
            sharing == IF shares_percent < 1000
                       THEN <<"Encourage sharing with clear CTAs and valuable content.">>
                       ELSE <<>>
        IN  /\ recs = <<BucketRecommendation[analysis.status]>> \o discussion \o sharing
            /\ Len(recs) \in 1..3
            /\ IsPercentOf(comments_percent, CountOf("comments"), TotalGiven)
            /\ IsPercentOf(shares_percent, CountOf("shares"), TotalGiven)
            /\ TotalGiven = 0 => Len(recs) = 3

\* Comments are exactly 20 percent of the interactions and shares more than
\* 10: the one recommendation is that of the bucket.
C16_Witness ==
    /\ TrackerReturned
    /\ TotalGiven = 5
    /\ ret.out.value.analysis.engagement_breakdown.comments_percent = 2000
    /\ Len(ret.out.value.recommendations) = 1

\* The last operation was ContentGeneratorAgent.execute, and it returned.
ContentReturned == ret.op = "content.execute" /\ ~ret.out.raised

\* The hashtags given to the last ContentGeneratorAgent.execute.
TagsGiven == Get(ret.args, "hashtags", PyList(<<>>)).v

\* The text of a result as post-processed for the platform, before any
\* hashtag is appended.
PostProcessed(result) ==
    OptimizeForPlatform(GenerateContent(result.topic, result.tone, result.style))

\* s ends with e
EndsWith(s, e) == Len(e) <= Len(s) /\ SubSeq(s, Len(s) - Len(e) + 1, Len(s)) = e

\* C17: with a non-empty hashtag sequence, the content returned by
\* ContentGeneratorAgent.execute is the platform-post-processed text
\* followed by a blank line and the hashtags joined by single spaces, so it
\* ends with the last hashtag on every platform; with no hashtags it is
\* exactly the post-processed text; a successful workflow returns the
\* content its content agent returned.
C17_HashtagsAppended ==
    /\ ContentReturned =>
          LET result == ret.out.value
              n == Len(TagsGiven)
          IN  /\ result.length = Len(result.content)
              /\ IF n = 0
                 THEN result.content = PostProcessed(result)
                 ELSE /\ result.content =
                            PostProcessed(result) \o <<"\n", "\n">>
                                \o JoinStrs(<<" ">>, TagsGiven)
                      /\ EndsWith(result.content, TagsGiven[n].v)
                      /\ n > 1 => EndsWith(result.content,
                                           TagsGiven[n - 1].v \o <<" ">> \o TagsGiven[n].v)
    /\ (WorkflowCalledWithDict /\ ret.out.value.status = "success") =>
          LET tags == Get(ret.args.v, "hashtags", PyList(<<>>)).v
          IN  /\ ret.out.value.content = state.generated_content[1].content
              /\ Len(tags) > 0 => EndsWith(ret.out.value.content, tags[Len(tags)].v)

\* A text cut to the twitter limit, with two hashtags appended after it.
C17_Witness ==
    /\ ContentReturned
    /\ config.platform = "twitter"
    /\ Len(TagsGiven) = 2
    /\ Len(PostProcessed(ret.out.value)) = 280
    /\ EndsWith(ret.out.value.content,
                <<"\n", "\n", "#", "A", "I", " ", "#", "I", "n", "n", "o", "v", "a", "t", "i",
                  "o", "n">>)

\* The results of ContentGeneratorAgent.execute at hand: the one it last
\* returned to its caller, and the ones a workflow recorded in the state.
ContentResults ==
    {state.generated_content[i] : i \in DOMAIN state.generated_content}
        \cup (IF ContentReturned THEN {ret.out.value} ELSE {})

\* C18: on twitter, the content of every ContentGeneratorAgent.execute
\* result, and its length field, never exceed the platform limit of 280
\* characters, whatever the topic, tone, style and hashtags, the appended
\* hashtags included.
C18_TwitterContentWithinLimit ==
    config.platform = "twitter" =>
        \A result \in ContentResults :
            /\ Len(result.content) <= 280
            /\ result.length <= 280

\* C19: reset_state empties the trends, generated_content and
\* engagement_metrics of the orchestrator's state and changes nothing else:
\* not the execution history, no agent's memory, not the trends cache, and
\* not the tracker's metrics_history and aggregated_metrics; a
\* get_current_state right after a reset reports the emptied state together
\* with the count and the last entry of the history of the earlier workflows.
C19_ResetClearsStateOnly ==
    /\ [][ret'.op = "reset_state" =>
              /\ state' = EmptyState
              /\ UNCHANGED <<execution_history, memory, trends_cache, metrics_history,
                             aggregated_metrics, config>>]_vars
    /\ [][(ret.op = "reset_state" /\ ret'.op = "get_current_state") =>
              LET current == ret'.out.value
              IN  /\ current.state = EmptyState
                  /\ current.execution_count = Len(execution_history)
                  /\ current.last_execution =
                        IF Len(execution_history) > 0
                        THEN execution_history[Len(execution_history)]
                        ELSE PyNone]_vars

\* After a successful workflow and a reset, get_current_state reports an
\* empty state, one execution and its result, while the tracker still holds
\* the metrics of that workflow.
C19_Witness ==
    /\ ret.op = "get_current_state"
    /\ state = EmptyState
    /\ ret.out.value.execution_count = 1
    /\ ret.out.value.last_execution.status = "success"
    /\ Len(metrics_history) = 1
    /\ aggregated_metrics.total_interactions > 0
    /\ Len(memory["trend_monitor"]) = 1

\* How far the pipeline has come: the workflows recorded, the results the
\* tracker recorded, and the entries in the memories of the content agent
\* and of the trend agent.
PipelineCounts ==
    <<Len(execution_history), Len(metrics_history), Len(memory["content_generator"]),
      Len(memory["trend_monitor"])>>

\* C20: whatever workflows, succeeding or failing at any step, and resets
\* an orchestrator has run, with its agents driven through it alone,
\* len(execution_history) <= len(metrics_history) <= the memory size of the
\* content agent <= the memory size of the trend agent; a successful
\* workflow increases each of the four counts by exactly one, a failed one
\* or a reset decreases none.
C20_PipelineProgress ==
    /\ [](\A i \in 1..3 : PipelineCounts[i] <= PipelineCounts[i + 1])
    /\ [][(WorkflowStep /\ ~ret'.out.raised /\ ret'.out.value.status = "success") =>
              \A i \in 1..4 : PipelineCounts'[i] = PipelineCounts[i] + 1]_vars
    /\ [][\A i \in 1..4 : PipelineCounts'[i] >= PipelineCounts[i]]_vars

\* A workflow succeeded after one that failed in its engagement step and a
\* reset: the trend and content agents have run twice, the tracker has
\* recorded one result and the history one workflow.
C20_Witness ==
    /\ WorkflowCalledWithDict
    /\ ret.out.value.status = "success"
    /\ PipelineCounts = <<1, 1, 2, 2>>
    /\ Len(state.generated_content) = 1

\* The outcome of execute_workflow(input_params) run alone on a fresh
\* orchestrator of the same configuration.
WorkflowAlone(input_params) ==
    LET s1 == TrendStep(FreshWorld, input_params, 0)
        s2 == IF s1.raised THEN s1 ELSE ContentStep(s1.w, input_params, s1.value, 0)
        s3 == IF s2.raised THEN s2 ELSE EngagementStep(s2.w, input_params, 0)
    IN  Outcome(IF s1.raised \/ s2.raised \/ s3.raised
                THEN Catch(0, s3, 0)
                ELSE Finish(s3.w, 0, s2.value, s3.value, 0))

\* The tasks of the gathered invocations, and those that are done.
Tasks == DOMAIN loop.tasks

DoneTasks == {i \in Tasks : loop.tasks[i].pc = "done"}

\* Task i is between its first step and its return.
InProgress(i) == loop.tasks[i].pc \in {"trend", "content", "engagement"}

\* Task i returned a result of status success.
Succeeded(i) ==
    /\ i \in DoneTasks
    /\ ~loop.tasks[i].out.raised
    /\ loop.tasks[i].out.value.status = "success"

\* The steps of two gathered invocations never interleave: no await of the
\* workflow suspends, so a task that holds the loop keeps it until it is
\* done and at most one task is in progress; and the content and the
\* engagement_analysis of every result are those the invocation yields when
\* it runs alone on its own input.
RunToCompletion ==
    /\ [](\A i, j \in Tasks : (InProgress(i) /\ InProgress(j)) => i = j)
    /\ [](\A i \in Tasks : InProgress(i) => loop.running = i)
    /\ [][loop.running # 0 =>
              \/ loop'.running = loop.running
              \/ loop'.tasks[loop.running].pc = "done"]_vars
    /\ [](\A i \in DoneTasks :
            LET result == loop.tasks[i].out
                alone == WorkflowAlone(loop.tasks[i].input_params)
            IN  /\ ~result.raised
                /\ result.value.status = alone.value.status
                /\ Succeeded(i) =>
                      /\ result.value.content = alone.value.content
                      /\ result.value.engagement_analysis = alone.value.engagement_analysis)

\* C21 as stated: the steps of two execute_workflow invocations gathered on
\* one event loop never interleave, each result's content and
\* engagement_analysis come from the invocation's own input, and both
\* results are in the execution history.
C21_Original ==
    /\ RunToCompletion
    /\ [](\A i \in DoneTasks :
            \E k \in DOMAIN execution_history :
                execution_history[k] = loop.tasks[i].out.value)

\* C21: the steps of two execute_workflow invocations gathered on one event
\* loop never interleave, as no await of the workflow suspends; each
\* result's content and engagement_analysis are those of the invocation's
\* own input; and the execution history holds the results of the
\* invocations that succeeded, in the order they ran, and no error result.
C21_GatheredWorkflowsRunInTurn ==
    /\ RunToCompletion
    /\ [](Len(execution_history) = Cardinality({i \in Tasks : Succeeded(i)}))
    /\ [](\A i \in DoneTasks :
            Succeeded(i) <=>
                \E k \in DOMAIN execution_history :
                    execution_history[k] = loop.tasks[i].out.value)
    /\ [](\A i, j \in Tasks :
            (Succeeded(i) /\ Succeeded(j)
                /\ loop.tasks[i].out.value.workflow_id < loop.tasks[j].out.value.workflow_id)
            => /\ execution_history[1] = loop.tasks[i].out.value
               /\ execution_history[2] = loop.tasks[j].out.value)

\* Two gathered invocations on different inputs both succeeded, the second
\* scheduled one having run first: their contents and their analyses
\* differ, and the history holds both results.
C21_Witness ==
    /\ DoneTasks = {1, 2}
    /\ Succeeded(1) /\ Succeeded(2)
    /\ loop.tasks[2].out.value.workflow_id < loop.tasks[1].out.value.workflow_id
    /\ loop.tasks[1].out.value.content # loop.tasks[2].out.value.content
    /\ loop.tasks[1].out.value.engagement_analysis
          # loop.tasks[2].out.value.engagement_analysis
    /\ Len(execution_history) = 2

====
